---- MODULE Spec2Model ----
(***************************************************************************)
(* Model of packages/dialog/src/library/dialogGenerator.ts: the template   *)
(* locator (findTemplate), the file identity tracker (addEntry,            *)
(* existingRef), the template materializer (processTemplate), the          *)
(* orchestrator (processTemplates), the schema expression expander        *)
(* (expandSchema) and the driver (generate, writeFile).                    *)
(*                                                                         *)
(* Spec is a run of generate, with a second run on the files the first     *)
(* left; SpecExpand is a call of expandSchema on a schema tree.            *)
(*                                                                         *)
(* Strings are sequences of tokens: "p-string.lg" is                       *)
(* <<"p", "-", "string", ".", "lg">>, a path separates its components by   *)
(* the token "/".  The tokens are chosen so that no token is a substring   *)
(* of another one (String.includes is modelled on tokens).                 *)
(***************************************************************************)
EXTENDS Naturals, Sequences, FiniteSets, TLC

(***************************************************************************)
(* Bound of the model: the deepest chain of nested processTemplate calls   *)
(* that is followed.                                                       *)
(***************************************************************************)
MaxDepth == 4

----------------------------------------------------------------------------
(* Strings and paths (node's path module, String.prototype)                *)

Range(s) == {s[i] : i \in 1..Len(s)}

Max(S) == CHOOSE x \in S : \A y \in S : y <= x

\* Index of the last occurrence of tok in s, 0 when there is none.
LastIndexOf(s, tok) == Max({0} \cup {i \in 1..Len(s) : s[i] = tok})

Drop(s, n) == SubSeq(s, n + 1, Len(s))

Take(s, n) == SubSeq(s, 1, n)

EndsWith(s, suffix) ==
    /\ Len(suffix) <= Len(s)
    /\ SubSeq(s, Len(s) - Len(suffix) + 1, Len(s)) = suffix

StartsWith(s, prefix) ==
    /\ Len(prefix) <= Len(s)
    /\ Take(s, Len(prefix)) = prefix

\* String.prototype.includes, on tokens.
Includes(s, sub) ==
    \E i \in 0..Len(s) : i + Len(sub) <= Len(s) /\ SubSeq(s, i + 1, i + Len(sub)) = sub

\* ppath.join(dir, name)
Join(dir, name) == IF name = <<>> THEN dir ELSE dir \o <<"/">> \o name

\* ppath.basename(path)
Basename(path) == Drop(path, LastIndexOf(path, "/"))

\* ppath.basename(path, ext): the extension is removed when the basename ends
\* with it and is not the extension alone.
BasenameExt(path, ext) ==
    LET b == Basename(path)
    IN  IF EndsWith(b, ext) /\ b # ext THEN Take(b, Len(b) - Len(ext)) ELSE b

\* ppath.dirname(path)
Dirname(path) ==
    LET i == LastIndexOf(path, "/")
    IN  IF i = 0 THEN <<".">> ELSE Take(path, i - 1)

\* ppath.extname(path): from the last "." of the basename, "" when there is
\* none or when the basename starts with it.
Extname(path) ==
    LET b == Basename(path)
        i == LastIndexOf(b, ".")
    IN  IF i <= 1 THEN <<>> ELSE Drop(b, i - 1)

\* ppath.extname(path).substring(1)
ExtOf(path) == Drop(Extname(path), 1)

\* ppath.relative(from, to) for a path `to` below the directory `from`.
Relative(from, to) ==
    IF StartsWith(to, from \o <<"/">>) THEN Drop(to, Len(from) + 1) ELSE to

\* basename.replace(/\.[^.]+\.lg/, '.lg'): the first "." that is followed by
\* tokens without a ".", then by ".lg", is replaced with its run by ".lg".
FallbackName(b) ==
    LET Match(i) ==
            /\ b[i] = "."
            /\ \E j \in (i + 2)..(Len(b) - 1) :
                  /\ b[j] = "." /\ b[j + 1] = "lg"
                  /\ \A k \in (i + 1)..(j - 1) : b[k] # "."
        hits == {i \in 1..Len(b) : Match(i)}
    IN  IF hits = {} THEN b
        ELSE LET i == CHOOSE x \in hits : \A y \in hits : x <= y
                 j == CHOOSE x \in (i + 2)..(Len(b) - 1) :
                         /\ b[x] = "." /\ b[x + 1] = "lg"
                         /\ \A k \in (i + 1)..(x - 1) : b[k] # "."
             IN  Take(b, i - 1) \o <<".", "lg">> \o Drop(b, j + 1)

\* templatePath(name, dir)
templatePath(name, dir) == Join(dir, name)

\* addPrefix(prefix, name): `${prefix}-${name}`
addPrefix(prefix, name) == prefix \o <<"-">> \o name

----------------------------------------------------------------------------
(* Inputs of a run: the template directories, the schema, the locales      *)

\* The arguments outDir and prefix of generate.
OutDir == <<"out">>

Prefix == <<"p">>

\* process.cwd() when generate is called.
StartDir == <<"cwd0">>

\* A section of a parsed .lg file: absent, or a body that evaluates to a
\* string (arr = FALSE, the string is val[1]) or to an array of strings, or
\* whose evaluation throws.  The tokens $prefix, $locale, $property, $type and
\* $role of a body stand for the members of the scope.
NoSec == [has |-> FALSE, throws |-> FALSE, arr |-> FALSE, val |-> <<>>]

Sec(str) == [has |-> TRUE, throws |-> FALSE, arr |-> FALSE, val |-> <<str>>]

SecArr(list) == [has |-> TRUE, throws |-> FALSE, arr |-> TRUE, val |-> list]

SecThrows == [has |-> TRUE, throws |-> TRUE, arr |-> FALSE, val |-> <<>>]

\* A file of a template directory: its name, its text, and the sections
\* LGParser.parseFile finds in it.
TextFile(name, text) ==
    [name |-> name, text |-> text,
     template |-> NoSec, filename |-> NoSec, entities |-> NoSec, templates |-> NoSec]

LGFile(name, template, filename, entities, templates) ==
    [name |-> name, text |-> <<"# lg">>,
     template |-> template, filename |-> filename,
     entities |-> entities, templates |-> templates]

\* The standard templates.
DirA ==
    { LGFile(<<"string", ".", "lg">>,
             Sec(<<"S", ":", "$property">>), NoSec, NoSec,
             SecArr(<< <<"p", "-", "string">> >>)),
      TextFile(<<"number">>, <<"N">>),
      LGFile(<<"loop", ".", "lg">>,
             NoSec, NoSec, NoSec, SecArr(<< <<"loop">> >>)),
      LGFile(<<"t", ".", "en-us", ".", "lg", ".", "lg">>,
             SecArr(<< <<"l1">>, <<"l2", "$locale">> >>), NoSec, NoSec, NoSec),
      LGFile(<<"ent", ".", "lu", ".", "lg">>,
             Sec(<<"E", "$property">>),
             Sec(<<"$prefix", "-", "$property", "Entity", ".", "lu">>),
             SecArr(<< <<"$property", "Entity">>, <<"other", ":", "r">> >>),
             NoSec),
      TextFile(<<"empty">>, <<>>),
      LGFile(<<"bad", ".", "lg">>,
             Sec(<<"B">>), Sec(<<"x", ".", "json">>), NoSec, NoSec),
      LGFile(<<"boom", ".", "lg">>,
             SecThrows, NoSec, NoSec, NoSec),
      LGFile(<<"enum", ".", "lg">>,
             Sec(<<"C", "$property">>), NoSec,
             SecArr(<< <<"$property", "Entity">> >>), NoSec) }

\* The templates of the user, which hold overrides of generated files.
DirB ==
    { TextFile(<<"string">>, <<"S2">>),
      TextFile(<<"p", "-", "string">>, <<"OVR">>),
      LGFile(<<"number", ".", "lg">>,
             Sec(<<"N2", "$locale">>), NoSec, NoSec, NoSec),
      TextFile(<<"p", "-", "number">>, <<>>),
      TextFile(<<"other", "Entity", "-", "string">>, <<"E">>) }

\* The files below a template directory.
DirFiles(dir) == IF dir = <<"A">> THEN DirA ELSE IF dir = <<"B">> THEN DirB ELSE {}

\* fs.pathExists(loc) for a path below a template directory.
templateExists(loc) ==
    \E f \in DirFiles(Dirname(loc)) : f.name = Basename(loc)

templateFile(loc) ==
    CHOOSE f \in DirFiles(Dirname(loc)) : f.name = Basename(loc)

\* type Template = lg.LGFile | string | undefined
Undefined ==
    [tag |-> "undefined", text |-> <<>>, source |-> <<>>,
     template |-> NoSec, filename |-> NoSec, entities |-> NoSec, templates |-> NoSec]

\* fs.readFile(loc, 'utf8')
readFile(loc) ==
    [tag |-> "string", text |-> templateFile(loc).text, source |-> <<>>,
     template |-> NoSec, filename |-> NoSec, entities |-> NoSec, templates |-> NoSec]

\* lg.LGParser.parseFile(loc): the sections of the file, each with its source.
parseFile(loc) ==
    LET f == templateFile(loc)
    IN  [tag |-> "object", text |-> <<>>, source |-> loc,
         template |-> f.template, filename |-> f.filename,
         entities |-> f.entities, templates |-> f.templates]

\* One turn of a loop that keeps the first template found.
findTemplateInFirst(name, dir, template) ==
    IF template.tag # "undefined" THEN template
    ELSE IF templateExists(templatePath(name, dir))
    THEN readFile(templatePath(name, dir))
    ELSE IF templateExists(templatePath(name \o <<".", "lg">>, dir))
         THEN parseFile(templatePath(name \o <<".", "lg">>, dir))
         ELSE template

\* One turn of the loop of findTemplate over the directories.
findTemplateIn(name, dir, template) ==
    IF templateExists(templatePath(name, dir))
    THEN readFile(templatePath(name, dir))
    ELSE IF templateExists(templatePath(name \o <<".", "lg">>, dir))
         THEN parseFile(templatePath(name \o <<".", "lg">>, dir))
         ELSE template

RECURSIVE findTemplateFrom(_, _, _, _)
findTemplateFrom(name, templateDirs, i, template) ==
    IF i > Len(templateDirs) THEN template
    ELSE findTemplateFrom(name, templateDirs, i + 1,
                          findTemplateIn(name, templateDirs[i], template))

\* findTemplate(name, templateDirs)
findTemplate(name, templateDirs) == findTemplateFrom(name, templateDirs, 1, Undefined)

\* JavaScript truthiness of a Template: an object, or a string that is not ''.
Truthy(template) ==
    \/ template.tag = "object"
    \/ template.tag = "string" /\ template.text # <<>>

\* template.templates.some(f => f.name === section)
hasSection(template, section) ==
    /\ template.tag = "object"
    /\ CASE section = "template" -> template.template.has
         [] section = "filename" -> template.filename.has
         [] section = "entities" -> template.entities.has
         [] section = "templates" -> template.templates.has

----------------------------------------------------------------------------
(* The file identity tracker (scope.templates)                             *)

\* type FileRef = { name, fallbackName, fullName, relative }
NoRef == [name |-> <<>>, fallbackName |-> <<>>, fullName |-> <<>>, relative |-> <<>>]

\* arr.find(pred): the first element of arr (a sequence) in the set hits.
FirstIn(arr, hits) ==
    arr[CHOOSE i \in 1..Len(arr) : arr[i] \in hits /\ \A j \in 1..(i - 1) : arr[j] \notin hits]

\* addEntry without the test for an entry of that name.
addEntryUnchecked(fullPath, outDir, tracker) ==
    LET basename == BasenameExt(fullPath, <<".", "dialog">>)
    IN  [threw |-> ExtOf(fullPath) \notin DOMAIN tracker,
         defined |-> ExtOf(fullPath) \in DOMAIN tracker,
         ref |-> [name |-> basename,
                  fallbackName |-> FallbackName(basename),
                  fullName |-> Basename(fullPath),
                  relative |-> Relative(outDir, fullPath)]]

\* addEntry(fullPath, outDir, tracker): threw when tracker[ext] is undefined
\* (arr.find of undefined is a TypeError), else the new FileRef unless one of
\* tracker[ext] has its name.  The tracker is not changed.
addEntry(fullPath, outDir, tracker) ==
    LET basename == BasenameExt(fullPath, <<".", "dialog">>)
        ext == ExtOf(fullPath)
    IN  IF ext \notin DOMAIN tracker
        THEN [threw |-> TRUE, defined |-> FALSE, ref |-> NoRef]
        ELSE IF \E r \in Range(tracker[ext]) : r.name = basename
             THEN [threw |-> FALSE, defined |-> FALSE, ref |-> NoRef]
             ELSE [threw |-> FALSE, defined |-> TRUE,
                   ref |-> [name |-> basename,
                            fallbackName |-> FallbackName(basename),
                            fullName |-> Basename(fullPath),
                            relative |-> Relative(outDir, fullPath)]]

\* The tracker after existingRef(name, tracker): tracker[ext] is created.
existingRefTracker(name, tracker) ==
    LET ext == ExtOf(name)
    IN  IF ext \in DOMAIN tracker THEN tracker
        ELSE [e \in DOMAIN tracker \cup {ext} |-> IF e = ext THEN <<>> ELSE tracker[e]]

\* A lookup that finds no FileRef, whatever the tracker holds.
existingRefNone(name, tracker) == [defined |-> FALSE, ref |-> NoRef]

\* existingRef(name, tracker): the FileRef of tracker[ext] whose fullName is name.
existingRef(name, tracker) ==
    LET arr == existingRefTracker(name, tracker)[ExtOf(name)]
        hits == {r \in Range(arr) : r.fullName = name}
    IN  IF hits = {} THEN [defined |-> FALSE, ref |-> NoRef]
        ELSE [defined |-> TRUE, ref |-> FirstIn(arr, hits)]

\* scope.templates[ext].push(ref)
pushRef(tracker, ext, ref) == [tracker EXCEPT ![ext] = Append(@, ref)]

----------------------------------------------------------------------------
(* The output directory (fs-extra)                                         *)

\* A file is below the directory p.
IsDir(files, p) == \E f \in DOMAIN files : StartsWith(f, p \o <<"/">>)

\* fs.pathExists(path)
pathExists(files, path) == path \in DOMAIN files \/ IsDir(files, path)

\* fs.ensureDir(dir) throws when dir, or a directory above it, is a file.
ensureDirThrows(files, dir) ==
    \E k \in 1..Len(dir) :
        /\ k = Len(dir) \/ dir[k + 1] = "/"
        /\ Take(dir, k) \in DOMAIN files

\* fs.writeFile(path, val) throws when path is a directory.
writeFileThrows(files, path) == IsDir(files, path)

\* The files after fs.writeFile(path, val).
written(files, path, val) ==
    [f \in DOMAIN files \cup {path} |-> IF f = path THEN val ELSE files[f]]

\* A write whatever the files are.
alwaysWrite(forced, exists) == TRUE

\* The condition under which a file is produced: force || !exists.
mayWrite(forced, exists) == forced \/ ~exists

----------------------------------------------------------------------------
(* Evaluation of a section against the scope (LGFile.evaluateTemplate)     *)

Undef == <<"undefined">>

\* The value of one token of a body.
tokenValue(tok, scope) ==
    CASE tok = "$prefix" -> Prefix
      [] tok = "$locale" -> scope.locale
      [] tok = "$property" -> scope.property
      [] tok = "$type" -> scope.type
      [] tok = "$role" -> scope.role
      [] OTHER -> <<tok>>

RECURSIVE substitute(_, _)
substitute(str, scope) ==
    IF str = <<>> THEN <<>>
    ELSE tokenValue(Head(str), scope) \o substitute(Tail(str), scope)

\* template.evaluateTemplate(section, scope)
evaluateTemplate(sec, scope) ==
    [threw |-> sec.throws, arr |-> sec.arr,
     val |-> [i \in 1..Len(sec.val) |-> substitute(sec.val[i], scope)]]

\* result.join('\n')
RECURSIVE joinLines(_)
joinLines(list) ==
    IF list = <<>> THEN <<>>
    ELSE IF Len(list) = 1 THEN list[1]
    ELSE list[1] \o <<"\n">> \o joinLines(Tail(list))

\* The string written by fs.writeFile for an LGFile object (Buffer.from('' + data)).
ObjectString == <<"[object Object]">>

----------------------------------------------------------------------------
(* JSON values: the schema tree                                            *)

\* A JSON value: its type, the tokens of a string, number or boolean, and the
\* keys (of an object) and items (of an object or an array), in order.
Node(t, s, keys, items) == [t |-> t, s |-> s, keys |-> keys, items |-> items]

Str(s) == Node("string", s, << >>, << >>)

Num(n) == Node("number", << n >>, << >>, << >>)

Bool(b) == Node("boolean", << b >>, << >>, << >>)

Null == Node("null", << >>, << >>, << >>)

Arr(items) == Node("array", << >>, << >>, items)

\* A member of an object.
M(key, val) == [key |-> key, val |-> val]

Obj(members) ==
    Node("object", << >>,
         [i \in 1..Len(members) |-> members[i].key],
         [i \in 1..Len(members) |-> members[i].val])

\* Object.entries(obj)
entries(obj) == [i \in 1..Len(obj.keys) |-> M(obj.keys[i], obj.items[i])]

\* An array of strings.
Strings(list) == Arr([i \in 1..Len(list) |-> Str(list[i])])

\* The string '${expr}'.
Expr(expr) == Str(<<"${">> \o expr \o <<"}">>)

----------------------------------------------------------------------------
(* The schema                                                              *)

\* A member ($templates, $entities) that may be absent.
Absent == [has |-> FALSE, val |-> <<>>]

List(val) == [has |-> TRUE, val |-> val]

Property(path, type, templates, entities) ==
    [path |-> path, type |-> type, templates |-> templates, entities |-> entities]

\* A schema: its properties in the order of their declaration, its $templates
\* (top), and the other members of its JSON (more).

\* conf has entities and the default template, age and color have neither, and
\* the template of the type of color declares entities.
Schema1 ==
    [props |-> << Property(<<"conf">>, <<"string">>, Absent,
                           List(<< <<"conf", "Entity">>, <<"other", ":", "r">> >>)),
                  Property(<<"age">>, <<"number">>, Absent, Absent),
                  Property(<<"color">>, <<"enum">>, Absent, Absent) >>,
     top |-> Absent,
     more |-> << M("$public", Strings(<< <<"conf">>, <<"age">>, <<"color">> >>)),
                 M("$requires", Strings(<< <<"standard", ".", "schema">> >>)),
                 M("title", Expr(<<"locale">>)) >>]

\* conf names its templates, one of which declares its entities; age has the
\* type of conf; the schema names templates of its own.
Schema2 ==
    [props |-> << Property(<<"conf">>, <<"string">>,
                           List(<< <<"t", ".", "en-us", ".", "lg">>, <<"ent", ".", "lu">> >>),
                           Absent),
                  Property(<<"age">>, <<"string">>, Absent,
                           List(<< <<"age", "Entity">> >>)) >>,
     top |-> List(<< <<"p", "-", "string">>, <<"empty">> >>),
     more |-> << M("$public", Strings(<< <<"conf">>, <<"age">> >>)),
                 M("$requires", Strings(<< <<"standard", ".", "schema">> >>)),
                 M("hint", Expr(<<"fail()">>)) >>]

\* Templates that fail.
Schema3 ==
    [props |-> << Property(<<"conf">>, <<"string">>,
                           List(<< <<"boom">>, <<"bad">>, <<"number">> >>),
                           List(<<>>)) >>,
     top |-> Absent,
     more |-> << M("note", Expr(<<"(">>)) >>]

\* No property at all.
Schema4 ==
    [props |-> <<>>,
     top |-> List(<< <<"ent", ".", "lu">>, <<"missing">> >>),
     more |-> << >>]

\* A template that names itself.
Schema5 ==
    [props |-> << Property(<<"conf">>, <<"string">>, Absent, List(<<>>)),
                  Property(<<"age">>, <<"number">>, List(<< <<"loop">> >>), Absent) >>,
     top |-> Absent,
     more |-> << >>]

\* A member whose value is null.
Schema6 ==
    [props |-> << Property(<<"conf">>, <<"string">>, Absent,
                           List(<< <<"conf", "Entity">> >>)) >>,
     top |-> Absent,
     more |-> << M("default", Null) >>]

Schemas == {Schema1, Schema2, Schema3, Schema4, Schema5, Schema6}

\* The index of the property of that path, 0 when schema.properties has none.
propertyIndex(props, path) ==
    IF \E i \in 1..Len(props) : props[i].path = path
    THEN CHOOSE i \in 1..Len(props) : props[i].path = path
    ELSE 0

\* First index of tok in s, Len(s) + 1 when there is none.
IndexOf(s, tok) ==
    IF tok \in Range(s) THEN CHOOSE i \in 1..Len(s) : s[i] = tok /\ \A j \in 1..(i - 1) : s[j] # tok
    ELSE Len(s) + 1

\* let [entityName, role] = entity.split(':')
entityNameOf(entity) == Take(entity, IndexOf(entity, ":") - 1)

roleOf(entity) ==
    IF ":" \notin Range(entity) THEN Undef
    ELSE LET rest == Drop(entity, IndexOf(entity, ":"))
         IN  Take(rest, IndexOf(rest, ":") - 1)

\* The name of the template of an entity, taken as it is written.
entityTemplateLiteral(entity, scope) ==
    entityNameOf(entity) \o <<"Entity", "-">> \o scope.type

\* The name of the template of an entity of the property in scope.
entityTemplate(entity, scope) ==
    LET entityName == IF entityNameOf(entity) = scope.property \o <<"Entity">>
                      THEN scope.type
                      ELSE entityNameOf(entity)
    IN  entityName \o <<"Entity", "-">> \o scope.type

LocaleLists == {<<>>, << <<"en-us">> >>, << <<"en-us">>, <<"fr-fr">> >>}

TemplateDirLists == {<< <<"A">> >>, << <<"A">>, <<"B">> >>, << <<"B">>, <<"A">> >>}

\* The file of the final schema.
SchemaFile == Join(OutDir, Prefix \o <<".", "schema", ".", "dialog">>)

Old == <<"old">>

\* The output directory before the first run.
InitialDisks ==
    LET File(path) == [f \in {path} |-> Old]
        Files(paths) == [f \in paths |-> Old]
    IN  { Files({}),
          File(Join(OutDir, <<"p", "-", "string">>)),
          Files({Join(OutDir, <<"en-us", "/", "p", "-", "t", ".", "en-us", ".", "lg">>),
                 SchemaFile}),
          File(Join(OutDir, <<"en-us">>)),
          Files({Join(OutDir, <<"p", "-", "number">>),
                 Join(OutDir, <<"p", "-", "conf", "Entity", ".", "lu">>)}),
          File(OutDir) }

----------------------------------------------------------------------------
(* State                                                                   *)

VARIABLES
    force,          \* the argument force of generate
    locales,        \* the argument allLocales
    templateDirs,   \* the argument templateDirs, expanded
    schema0,        \* the schema as processSchemas loads it
    schema,         \* scope.schema: $entities may be attached to its properties
    disk,           \* the files of the output directory: path -> content
    disk0,          \* the files when the run started
    tracker,        \* scope.templates: extension -> sequence of FileRef
    cwd,            \* process.cwd()
    feedback,       \* the calls of the feedback callback, in order
    stack,          \* the chain of active processTemplate calls
    pc,             \* the position of generate and processTemplates
    scope,          \* scope.locale, scope.property, scope.type, scope.role
    li,             \* the index of the locale of the loop of processTemplates
    pi,             \* the index of the property of the inner loop
    todo,           \* the names the current loop of processTemplates has left
    run,            \* 1 in the first call of generate, 2 in the second one
    writes,         \* the paths written by processTemplate in this run, in order
    skipped,        \* the paths processTemplate skipped in this run
    attempts,       \* the calls of processTemplate by processTemplates, in order
    call            \* a call of expandSchema on its own: arguments and outcome

vars == << force, locales, templateDirs, schema0, schema, disk, disk0, tracker, cwd,
           feedback, stack, pc, scope, li, pi, todo, run, writes, skipped, attempts,
           call >>

inputs == << force, locales, templateDirs, schema0 >>

NoScope == [locale |-> Undef, property |-> Undef, type |-> Undef, role |-> Undef]

\* The outcome of a call of expandSchema that has not returned.
NoOutcome ==
    [node |-> Node("null", << >>, << >>, << >>), feedback |-> << >>, threw |-> FALSE,
     evals |-> << >>]

Init ==
    /\ force \in BOOLEAN
    /\ locales \in LocaleLists
    /\ templateDirs \in TemplateDirLists
    /\ schema0 \in Schemas
    /\ schema = schema0
    /\ disk \in InitialDisks
    /\ disk0 = disk
    /\ tracker = << >>
    /\ cwd = StartDir
    /\ feedback = << >>
    /\ stack = << >>
    /\ pc = "start"
    /\ scope = NoScope
    /\ li = 0
    /\ pi = 0
    /\ todo = << >>
    /\ run = 1
    /\ writes = << >>
    /\ skipped = {}
    /\ attempts = << >>
    /\ call = [pc |-> "none", tree |-> Node("null", << >>, << >>, << >>),
               scope |-> NoScope, missingIsError |-> FALSE,
               first |-> NoOutcome, second |-> NoOutcome]

----------------------------------------------------------------------------
(* Feedback                                                                *)

Fb(type, msg, arg) == [type |-> type, msg |-> msg, arg |-> arg]

Generating(path) == Fb("info", "Generating", path)

Skipping(path) == Fb("warning", "Skipping already existing", path)

MissingTemplate(name) == Fb("error", "Missing template", name)

NoEntities(path) == Fb("error", "does not have $entities defined in schema or template.", path)

\* e.message of an exception: of evaluateTemplate, of a read of a member of
\* undefined, of fs-extra.
EvaluateError == <<"evaluate">>

TypeError == <<"TypeError">>

FsError == <<"fs">>

\* A catch that reports nothing.
catchSilent(fb, e) == fb

\* catch (e) { feedback(FeedbackType.error, e.message) }
catchFeedback(fb, e) == Append(fb, Fb("error", "exception", e))

\* A return that leaves the working directory as it is.
keptDir(oldDir, dir) == dir

\* finally { process.chdir(oldDir) }
restoredDir(oldDir, dir) == oldDir

\* The last argument of the call of processTemplate for an entity.
ignorableEntity == FALSE

\* A test that takes an empty list of entities for a missing one.
noEntity(entities) == ~entities.has \/ entities.val = << >>

\* if (!entities) of processTemplates
missingEntities(entities) == ~entities.has

\* property.schema of the properties schema.schemaProperties() yields: the
\* members of scope.schema.properties, in the order of their declaration.
schemaProperties(sch) == sch.props

----------------------------------------------------------------------------
(* Expansion of the schema (expandSchema) and its serialization            *)

\* e.message of the exception of ExpressionEngine.parse, the error of
\* tryEvaluate, and `${undefined}` for the error of an evaluation without one.
ParseError == <<"parse">>

EvalError == <<"error">>

\* expressionEngine.parse(expr).tryEvaluate(scope): parse throws for '(',
\* the evaluation of 'fail()' returns an error, 'property' and 'locale' are
\* the members of the scope, and any other name has no value.
tryEvaluate(expr, sc) ==
    CASE expr = <<"(">> -> [threw |-> TRUE, error |-> FALSE, value |-> Undef]
      [] expr = <<"fail()">> -> [threw |-> FALSE, error |-> TRUE, value |-> Undef]
      [] expr = <<"property">> -> [threw |-> FALSE, error |-> FALSE, value |-> sc.property]
      [] expr = <<"locale">> -> [threw |-> FALSE, error |-> FALSE, value |-> sc.locale]
      [] OTHER -> [threw |-> FALSE, error |-> FALSE, value |-> Undef]

\* JavaScript truthiness of a value: neither undefined nor ''.
TruthyValue(value) == value # Undef /\ value # << >>

\* feedback(FeedbackType.error, `${expr}: ${error}`)
ExpressionError(expr, error) == Fb("error", "expression", expr \o <<":">> \o error)

\* schema.substring(2, schema.length - 1)
exprOf(s) == SubSeq(s, 2, Len(s) - 1)

\* typeof schema === 'string' && schema.startsWith('${')
isExpression(node) == node.t = "string" /\ StartsWith(node.s, <<"${">>)

\* The outcome of expandSchema: the new schema, the feedback it gave, whether
\* it threw, and the expressions evaluated with the property of their scope.
Expanded(node, fb, threw, evals) ==
    [node |-> node, feedback |-> fb, threw |-> threw, evals |-> evals]

\* catch (e) { feedback(FeedbackType.error, `${expr}: ${e.message}`) }
catchExpression(expr, e) == << ExpressionError(expr, e) >>

\* The branch of a string that starts with '${'.
expandString(tree, sc, missingIsError) ==
    LET expr == exprOf(tree.s)
        r == tryEvaluate(expr, sc)
        ev == << [expr |-> expr, property |-> sc.property] >>
    IN  IF r.threw
        THEN Expanded(tree, catchExpression(expr, ParseError), FALSE, ev)
        ELSE IF ~r.error /\ TruthyValue(r.value)
        THEN Expanded(Str(r.value), << >>, FALSE, ev)
        ELSE Expanded(tree,
                      IF missingIsError
                      THEN << ExpressionError(expr, IF r.error THEN EvalError ELSE Undef) >>
                      ELSE << >>,
                      FALSE, ev)

\* A path extended by every key.
newPathAlways(path, key, inProperties) ==
    IF path = << >> THEN << key >> ELSE path \o <<".", key>>

\* let newPath = path; if (inProperties) newPath += newPath === '' ? key : '.' + key
newPath(path, key, inProperties) ==
    IF ~inProperties THEN path
    ELSE IF path = << >> THEN << key >> ELSE path \o <<".", key>>

RECURSIVE expandSchema(_, _, _, _, _)
RECURSIVE expandArray(_, _, _, _)
RECURSIVE expandObject(_, _, _, _, _)

\* for (let val of schema) newSchema.push(expandSchema(val, scope, path, false, ...))
expandArray(items, sc, path, missingIsError) ==
    IF items = << >> THEN Expanded(Arr(<< >>), << >>, FALSE, << >>)
    ELSE LET h == expandSchema(Head(items), sc, path, FALSE, missingIsError)
         IN  IF h.threw THEN h
             ELSE LET r == expandArray(Tail(items), sc, path, missingIsError)
                  IN  Expanded(Arr(<< h.node >> \o r.node.items),
                               h.feedback \o r.feedback, r.threw, h.evals \o r.evals)

\* for (let [key, val] of Object.entries(schema)) newSchema[key] = expandSchema(val,
\*     { ...scope, property: newPath }, newPath, key === 'properties', ...)
expandObject(members, sc, path, inProperties, missingIsError) ==
    IF members = << >> THEN Expanded(Obj(<< >>), << >>, FALSE, << >>)
    ELSE LET key == Head(members).key
             np == newPath(path, key, inProperties)
             h == expandSchema(Head(members).val, [sc EXCEPT !.property = np], np,
                               key = "properties", missingIsError)
         IN  IF h.threw THEN h
             ELSE LET r == expandObject(Tail(members), sc, path, inProperties,
                                        missingIsError)
                  IN  Expanded(Obj(<< M(key, h.node) >> \o entries(r.node)),
                               h.feedback \o r.feedback, r.threw, h.evals \o r.evals)

\* expandSchema(schema, scope, path, inProperties, missingIsError, feedback).
\* typeof null is 'object', and Object.entries(null) throws a TypeError.
expandSchema(tree, sc, path, inProperties, missingIsError) ==
    IF tree.t = "array"
    THEN expandArray(tree.items, sc, path, missingIsError)
    ELSE IF tree.t = "null"
    THEN Expanded(tree, << >>, TRUE, << >>)
    ELSE IF tree.t = "object"
    THEN expandObject(entries(tree), sc, path, inProperties, missingIsError)
    ELSE IF isExpression(tree)
    THEN expandString(tree, sc, missingIsError)
    ELSE Expanded(tree, << >>, FALSE, << >>)

\* A replacer that keeps every key.
replacedNone(key) == FALSE

\* The replacer of JSON.stringify: (key === '$templates' || key === '$requires')
replaced(key) == key \in {"$templates", "$requires"}

RECURSIVE stringify(_)
RECURSIVE stringifyItems(_)
RECURSIVE stringifyMembers(_)

stringifyItems(items) ==
    IF items = << >> THEN << >>
    ELSE stringify(Head(items))
         \o (IF Len(items) > 1 THEN <<",">> ELSE << >>)
         \o stringifyItems(Tail(items))

stringifyMembers(members) ==
    IF members = << >> THEN << >>
    ELSE <<"\"", Head(members).key, "\"", ":">> \o stringify(Head(members).val)
         \o (IF Len(members) > 1 THEN <<",">> ELSE << >>)
         \o stringifyMembers(Tail(members))

\* JSON.stringify(value, replacer, 4), without its white space: a member whose
\* key the replacer maps to undefined is left out.
stringify(node) ==
    CASE node.t = "object" ->
             <<"{">>
             \o stringifyMembers(SelectSeq(entries(node), LAMBDA m : ~replaced(m.key)))
             \o <<"}">>
      [] node.t = "array" -> <<"[">> \o stringifyItems(node.items) \o <<"]">>
      [] node.t = "string" -> <<"\"">> \o node.s \o <<"\"">>
      [] node.t = "null" -> <<"null">>
      [] OTHER -> node.s

\* One property of schema.properties as JSON.
propertyTree(p) ==
    Obj(<< M("type", Str(p.type)) >>
        \o (IF p.templates.has THEN << M("$templates", Strings(p.templates.val)) >> ELSE << >>)
        \o (IF p.entities.has THEN << M("$entities", Strings(p.entities.val)) >> ELSE << >>))

\* schema.schema as JSON: the properties, the $templates of the schema, and
\* its other members.
schemaTree(sch) ==
    Obj(<< M("properties",
             Obj([i \in 1..Len(sch.props) |-> M(sch.props[i].path[1], propertyTree(sch.props[i]))])) >>
        \o (IF sch.top.has THEN << M("$templates", Strings(sch.top.val)) >> ELSE << >>)
        \o sch.more)

\* The schema whose JSON is the tree, a tree that expandSchema made of the JSON
\* of sch: the properties and $templates hold no expression and are those of
\* sch, the other members are the last ones of the tree.
schemaOf(tree, sch) ==
    [sch EXCEPT !.more = SubSeq(entries(tree), Len(tree.keys) - Len(sch.more) + 1,
                                Len(tree.keys))]

----------------------------------------------------------------------------
(* processTemplate: one frame of the stack per active call                 *)

Top == stack[Len(stack)]

SetTop(f) == [stack EXCEPT ![Len(stack)] = f]

\* The frame of a call of processTemplate, at its first line.
callFrame(name, ignorable, site) ==
    [name |-> name, ignorable |-> ignorable, site |-> site, oldDir |-> cwd,
     pc |-> "lookup", template |-> Undefined, filename |-> <<>>, outPath |-> <<>>,
     ref |-> NoRef, todo |-> <<>>,
     entry |-> [tracker |-> tracker, disk |-> disk, schema |-> schema, cwd |-> cwd]]

\* The position after the output of a template: the sections of an LGFile.
afterOutput(template) == IF template.tag = "object" THEN "entities" ELSE "finally"

\* existingRef, findTemplate and the choice of what to do with the template.
PT_Lookup ==
    /\ stack # << >> /\ Top.pc = "lookup"
    /\ LET f == Top
           r == existingRef(f.name, tracker)
           t == findTemplate(f.name, templateDirs)
       IN  /\ tracker' = existingRefTracker(f.name, tracker)
           /\ IF r.defined
              THEN /\ stack' = SetTop([f EXCEPT !.outPath = Join(OutDir, r.ref.relative),
                                                !.pc = "finally"])
                   /\ UNCHANGED feedback
              ELSE IF t.tag = "undefined"
              THEN /\ stack' = SetTop([f EXCEPT !.pc = "finally"])
                   /\ feedback' = IF f.ignorable THEN feedback
                                  ELSE Append(feedback, MissingTemplate(f.name))
              ELSE IF ~Truthy(t)
              THEN /\ stack' = SetTop([f EXCEPT !.template = t, !.pc = "finally"])
                   /\ UNCHANGED feedback
              ELSE /\ stack' = SetTop([f EXCEPT !.template = t,
                                                !.pc = IF t.tag # "object" \/ hasSection(t, "template")
                                                       THEN "filename" ELSE "entities"])
                   /\ UNCHANGED feedback
    /\ UNCHANGED << call, inputs, schema, disk, disk0, cwd, pc, scope, li, pi, todo, run,
                    writes, skipped, attempts >>

\* The name of the output of a template: [threw, filename].
outputFilename(name, template, sc) ==
    LET filename == addPrefix(Prefix, name)
        ev == evaluateTemplate(template.filename, sc)
    IN  IF hasSection(template, "filename")
        THEN [threw |-> ev.threw, filename |-> IF ev.threw THEN <<>> ELSE ev.val[1]]
        ELSE IF Includes(filename, sc.locale)
        THEN [threw |-> FALSE, filename |-> sc.locale \o <<"/">> \o filename]
        ELSE [threw |-> FALSE, filename |-> filename]

\* The output path and the claim of its identity.
PT_Filename ==
    /\ stack # << >> /\ Top.pc = "filename"
    /\ LET f == Top
           fn == outputFilename(f.name, f.template, scope)
           outPath == Join(OutDir, fn.filename)
           a == addEntry(outPath, OutDir, tracker)
       IN  IF fn.threw
           THEN /\ feedback' = catchFeedback(feedback, EvaluateError)
                /\ stack' = SetTop([f EXCEPT !.pc = "finally"])
           ELSE IF a.threw
           THEN /\ feedback' = catchFeedback(feedback, TypeError)
                /\ stack' = SetTop([f EXCEPT !.filename = fn.filename, !.outPath = outPath,
                                             !.pc = "finally"])
           ELSE /\ UNCHANGED feedback
                /\ stack' = SetTop([f EXCEPT !.filename = fn.filename, !.outPath = outPath,
                                             !.ref = a.ref,
                                             !.pc = IF a.defined THEN "write"
                                                    ELSE afterOutput(f.template)])
    /\ UNCHANGED << call, inputs, schema, disk, disk0, tracker, cwd, pc, scope, li, pi, todo,
                    run, writes, skipped, attempts >>

\* The body of an output: the template, or its 'template' section evaluated,
\* replaced by a file of the template directories that has the name of the output.
outputBody(template, filename, dirs, sc) ==
    LET ev == evaluateTemplate(template.template, sc)
        result == IF template.tag = "object"
                  THEN IF ev.arr THEN joinLines(ev.val) ELSE ev.val[1]
                  ELSE template.text
        existing == findTemplate(filename, dirs)
    IN  IF Truthy(existing)
        THEN IF existing.tag = "object" THEN ObjectString ELSE existing.text
        ELSE result

\* The write of a new file, or the skip of an existing one.
PT_Write ==
    /\ stack # << >> /\ Top.pc = "write"
    /\ LET f == Top
           t == f.template
           isObject == t.tag = "object"
           generating == Append(feedback, Generating(f.outPath))
           dir == IF isObject THEN Dirname(t.source) ELSE cwd
       IN  IF mayWrite(force, pathExists(disk, f.outPath))
           THEN /\ cwd' = dir
                /\ IF isObject /\ evaluateTemplate(t.template, scope).threw
                   THEN /\ feedback' = catchFeedback(generating, EvaluateError)
                        /\ stack' = SetTop([f EXCEPT !.pc = "finally"])
                        /\ UNCHANGED << disk, tracker, writes >>
                   ELSE IF \/ ensureDirThrows(disk, Dirname(f.outPath))
                           \/ writeFileThrows(disk, f.outPath)
                   THEN /\ feedback' = catchFeedback(generating, FsError)
                        /\ stack' = SetTop([f EXCEPT !.pc = "finally"])
                        /\ UNCHANGED << disk, tracker, writes >>
                   ELSE /\ feedback' = generating
                        /\ disk' = written(disk, f.outPath,
                                           outputBody(t, f.filename, templateDirs, scope))
                        /\ tracker' = pushRef(tracker, ExtOf(f.outPath), f.ref)
                        /\ writes' = Append(writes, f.outPath)
                        /\ stack' = SetTop([f EXCEPT !.pc = afterOutput(t)])
                /\ UNCHANGED skipped
           ELSE /\ feedback' = Append(feedback, Skipping(f.outPath))
                /\ skipped' = skipped \cup {f.outPath}
                /\ stack' = SetTop([f EXCEPT !.pc = afterOutput(t)])
                /\ UNCHANGED << disk, tracker, cwd, writes >>
    /\ UNCHANGED << call, inputs, schema, disk0, pc, scope, li, pi, todo, run, attempts >>

\* The 'entities' section of an LGFile: the $entities of the property in scope.
PT_Entities ==
    /\ stack # << >> /\ Top.pc = "entities"
    /\ LET f == Top
           i == propertyIndex(schema.props, scope.property)
           ev == evaluateTemplate(f.template.entities, scope)
       IN  IF ~hasSection(f.template, "entities")
           THEN /\ stack' = SetTop([f EXCEPT !.pc = "templates"])
                /\ UNCHANGED << feedback, schema >>
           ELSE IF i = 0
           THEN /\ feedback' = catchFeedback(feedback, TypeError)
                /\ stack' = SetTop([f EXCEPT !.pc = "finally"])
                /\ UNCHANGED schema
           ELSE IF schema.props[i].entities.has
           THEN /\ stack' = SetTop([f EXCEPT !.pc = "templates"])
                /\ UNCHANGED << feedback, schema >>
           ELSE IF ev.threw
           THEN /\ feedback' = catchFeedback(feedback, EvaluateError)
                /\ stack' = SetTop([f EXCEPT !.pc = "finally"])
                /\ UNCHANGED schema
           ELSE /\ schema' = IF ev.arr \/ ev.val[1] # <<>>
                             THEN [schema EXCEPT !.props[i].entities = List(ev.val)]
                             ELSE schema
                /\ stack' = SetTop([f EXCEPT !.pc = "templates"])
                /\ UNCHANGED feedback
    /\ UNCHANGED << call, inputs, disk, disk0, tracker, cwd, pc, scope, li, pi, todo, run,
                    writes, skipped, attempts >>

\* The 'templates' section of an LGFile: the names to process next.
PT_Templates ==
    /\ stack # << >> /\ Top.pc = "templates"
    /\ LET f == Top
           ev == evaluateTemplate(f.template.templates, scope)
       IN  IF ~hasSection(f.template, "templates")
           THEN /\ stack' = SetTop([f EXCEPT !.pc = "finally"])
                /\ UNCHANGED feedback
           ELSE IF ev.threw
           THEN /\ feedback' = catchFeedback(feedback, EvaluateError)
                /\ stack' = SetTop([f EXCEPT !.pc = "finally"])
           ELSE /\ stack' = SetTop([f EXCEPT !.todo = ev.val, !.pc = "fanout"])
                /\ UNCHANGED feedback
    /\ UNCHANGED << call, inputs, schema, disk, disk0, tracker, cwd, pc, scope, li, pi, todo,
                    run, writes, skipped, attempts >>

\* for (let generate of generated) await processTemplate(generate, ...)
PT_Fanout ==
    /\ stack # << >> /\ Top.pc = "fanout"
    /\ LET f == Top
       IN  IF f.todo = << >>
           THEN stack' = SetTop([f EXCEPT !.pc = "finally"])
           ELSE /\ Len(stack) < MaxDepth
                /\ stack' = Append(SetTop([f EXCEPT !.todo = Tail(f.todo)]),
                                   callFrame(Head(f.todo), FALSE, "nested"))
    /\ UNCHANGED << call, inputs, schema, disk, disk0, tracker, cwd, feedback, pc, scope, li,
                    pi, todo, run, writes, skipped, attempts >>

\* finally { process.chdir(oldDir) } and the return of outPath.
PT_Finally ==
    /\ stack # << >> /\ Top.pc = "finally"
    /\ cwd' = restoredDir(Top.oldDir, cwd)
    /\ stack' = Take(stack, Len(stack) - 1)
    /\ UNCHANGED << call, inputs, schema, disk, disk0, tracker, feedback, pc, scope, li, pi,
                    todo, run, writes, skipped, attempts >>

----------------------------------------------------------------------------
(* generate, processTemplates, writeFile                                   *)

Message(text) == Fb("message", text, <<>>)

\* generate up to the first locale: the four messages, fs.ensureDir(outDir),
\* processSchemas, the forgiving expandSchema with the scope {}, the scope,
\* scope.templates = {}.  An exception is caught by generate and ends the run.
Generate_Start ==
    /\ pc = "start"
    /\ LET fb == feedback \o << Message(IF force THEN "Regenerating" ELSE "Generating"),
                               Message("Locales"), Message("Templates"),
                               Message("App.schema") >>
           x == expandSchema(schemaTree(schema), NoScope, << >>, FALSE, FALSE)
       IN  IF ensureDirThrows(disk, OutDir)
           THEN /\ feedback' = catchFeedback(fb, FsError)
                /\ pc' = "done"
                /\ UNCHANGED << schema, tracker, li >>
           ELSE IF x.threw
           THEN /\ feedback' = catchFeedback(fb \o x.feedback, TypeError)
                /\ pc' = "done"
                /\ UNCHANGED << schema, tracker, li >>
           ELSE /\ feedback' = fb \o x.feedback
                /\ schema' = schemaOf(x.node, schema)
                /\ tracker' = << >>
                /\ li' = 1
                /\ pc' = "locale"
    /\ UNCHANGED << call, inputs, disk, disk0, cwd, stack, scope, pi, todo, run,
                    writes, skipped, attempts >>

\* for (let locale of locales)
Orch_Locale ==
    /\ pc = "locale"
    /\ IF li <= Len(locales)
       THEN /\ scope' = [scope EXCEPT !.locale = locales[li]]
            /\ pi' = 1
            /\ pc' = "property"
       ELSE /\ pc' = "finish"
            /\ UNCHANGED << scope, pi >>
    /\ UNCHANGED << call, inputs, schema, disk, disk0, tracker, cwd, feedback, stack, li, todo,
                    run, writes, skipped, attempts >>

\* for (let property of schema.schemaProperties()): its templates.
Orch_Property ==
    /\ pc = "property"
    /\ IF pi <= Len(schemaProperties(schema))
       THEN LET property == schemaProperties(schema)[pi]
            IN  /\ scope' = [scope EXCEPT !.property = property.path, !.type = property.type]
                /\ todo' = IF property.templates.has THEN property.templates.val
                           ELSE << property.type >>
                /\ pc' = "templates"
       ELSE /\ pc' = "top"
            /\ UNCHANGED << scope, todo >>
    /\ UNCHANGED << call, inputs, schema, disk, disk0, tracker, cwd, feedback, stack, li, pi,
                    run, writes, skipped, attempts >>

\* What processTemplates asks of processTemplate: the name, for which locale
\* and property, and from which of its three loops.
Attempt(name, site) ==
    [locale |-> scope.locale, property |-> scope.property, name |-> name, site |-> site]

\* for (let template of templates) await processTemplate(template, ..., false)
Orch_Template ==
    /\ pc = "templates" /\ stack = << >>
    /\ IF todo # << >>
       THEN /\ stack' = << callFrame(Head(todo), FALSE, "property") >>
            /\ attempts' = Append(attempts, Attempt(Head(todo), "property"))
            /\ todo' = Tail(todo)
            /\ UNCHANGED pc
       ELSE /\ pc' = "entcheck"
            /\ UNCHANGED << stack, todo, attempts >>
    /\ UNCHANGED << call, inputs, schema, disk, disk0, tracker, cwd, feedback, scope, li, pi,
                    run, writes, skipped >>

\* let entities = property.schema.$entities, the error when it has none.
Orch_Entities ==
    /\ pc = "entcheck"
    /\ LET property == schemaProperties(schema)[pi]
       IN  IF missingEntities(property.entities)
           THEN /\ feedback' = Append(feedback, NoEntities(property.path))
                /\ pi' = pi + 1
                /\ pc' = "property"
                /\ UNCHANGED todo
           ELSE IF ~property.templates.has
           THEN /\ todo' = property.entities.val
                /\ pc' = "entities"
                /\ UNCHANGED << feedback, pi >>
           ELSE /\ pi' = pi + 1
                /\ pc' = "property"
                /\ UNCHANGED << feedback, todo >>
    /\ UNCHANGED << call, inputs, schema, disk, disk0, tracker, cwd, stack, scope, li, run,
                    writes, skipped, attempts >>

\* for (let entity of entities) await processTemplate(`${entityName}Entity-${scope.type}`, ...)
Orch_Entity ==
    /\ pc = "entities" /\ stack = << >>
    /\ IF todo # << >>
       THEN LET sc == [scope EXCEPT !.role = roleOf(Head(todo))]
            IN  /\ scope' = sc
                /\ stack' = << callFrame(entityTemplate(Head(todo), sc), ignorableEntity,
                                         "entity") >>
                /\ attempts' = Append(attempts,
                                      Attempt(entityTemplate(Head(todo), sc), "entity"))
                /\ todo' = Tail(todo)
                /\ UNCHANGED << pc, pi >>
       ELSE /\ pi' = pi + 1
            /\ pc' = "property"
            /\ UNCHANGED << scope, stack, todo, attempts >>
    /\ UNCHANGED << call, inputs, schema, disk, disk0, tracker, cwd, feedback, li, run, writes,
                    skipped >>

\* if (schema.schema.$templates)
Orch_Top ==
    /\ pc = "top"
    /\ IF schema.top.has
       THEN /\ todo' = schema.top.val
            /\ pc' = "toptemplates"
            /\ UNCHANGED li
       ELSE /\ li' = li + 1
            /\ pc' = "locale"
            /\ UNCHANGED todo
    /\ UNCHANGED << call, inputs, schema, disk, disk0, tracker, cwd, feedback, stack, scope, pi,
                    run, writes, skipped, attempts >>

\* for (let templateName of schema.schema.$templates) await processTemplate(...)
Orch_TopTemplate ==
    /\ pc = "toptemplates" /\ stack = << >>
    /\ IF todo # << >>
       THEN /\ stack' = << callFrame(Head(todo), FALSE, "top") >>
            /\ attempts' = Append(attempts, Attempt(Head(todo), "top"))
            /\ todo' = Tail(todo)
            /\ UNCHANGED << pc, li >>
       ELSE /\ li' = li + 1
            /\ pc' = "locale"
            /\ UNCHANGED << stack, todo, attempts >>
    /\ UNCHANGED << call, inputs, schema, disk, disk0, tracker, cwd, feedback, scope, pi, run,
                    writes, skipped >>

\* The strict expandSchema with the scope processTemplates left, JSON.stringify
\* and writeFile(<outDir>/<prefix>.schema.dialog, body).
Generate_Finish ==
    /\ pc = "finish"
    /\ LET x == expandSchema(schemaTree(schema), scope, << >>, FALSE, TRUE)
           fb == feedback \o x.feedback
           body == stringify(x.node)
       IN  IF x.threw
           THEN /\ feedback' = catchFeedback(fb, TypeError)
                /\ UNCHANGED disk
           ELSE IF mayWrite(force, pathExists(disk, SchemaFile))
           THEN IF \/ ensureDirThrows(disk, Dirname(SchemaFile))
                   \/ writeFileThrows(disk, SchemaFile)
                THEN /\ feedback' = catchFeedback(Append(fb, Generating(SchemaFile)), FsError)
                     /\ UNCHANGED disk
                ELSE /\ feedback' = Append(fb, Generating(SchemaFile))
                     /\ disk' = written(disk, SchemaFile, body)
           ELSE /\ feedback' = Append(fb, Skipping(SchemaFile))
                /\ UNCHANGED disk
    /\ pc' = "done"
    /\ UNCHANGED << call, inputs, schema, disk0, tracker, cwd, stack, scope, li, pi, todo, run,
                    writes, skipped, attempts >>

\* A second call of generate with the arguments of the first one, force unset,
\* on the output directory the first call left.
Rerun ==
    /\ pc = "done" /\ run = 1 /\ ~force
    /\ run' = 2
    /\ pc' = "start"
    /\ schema' = schema0
    /\ disk0' = disk
    /\ tracker' = << >>
    /\ feedback' = << >>
    /\ scope' = NoScope
    /\ li' = 0
    /\ pi' = 0
    /\ todo' = << >>
    /\ writes' = << >>
    /\ skipped' = {}
    /\ attempts' = << >>
    /\ UNCHANGED << call, inputs, disk, cwd, stack >>

Next ==
    \/ Generate_Start
    \/ Orch_Locale
    \/ Orch_Property
    \/ Orch_Template
    \/ Orch_Entities
    \/ Orch_Entity
    \/ Orch_Top
    \/ Orch_TopTemplate
    \/ PT_Lookup
    \/ PT_Filename
    \/ PT_Write
    \/ PT_Entities
    \/ PT_Templates
    \/ PT_Fanout
    \/ PT_Finally
    \/ Generate_Finish
    \/ Rerun

Spec == Init /\ [][Next]_vars

----------------------------------------------------------------------------
(* expandSchema on its own: a call on a schema tree, and a second call on  *)
(* the outcome of the first                                                *)

\* The values of the leaves of the trees.
Leaves ==
    { Str(<<"a">>), Str(<< >>), Num("1"), Bool("true"), Null,
      Expr(<<"property">>), Expr(<<"locale">>), Expr(<<"(">>), Expr(<<"fail()">>),
      Expr(<<"unknown">>) }

\* The schemas (objects) with the leaf l at the places of its values.
TreesOf(l) ==
    { Obj(<< M("title", l) >>),
      Obj(<< M("properties", Obj(<< M("a", l) >>)) >>),
      Obj(<< M("properties", Obj(<< M("a", Obj(<< M("type", l) >>)) >>)) >>),
      Obj(<< M("properties",
               Obj(<< M("a", Obj(<< M("properties", Obj(<< M("b", l) >>)),
                                    M("type", l) >>)) >>)) >>),
      Obj(<< M("properties",
               Obj(<< M("a", Obj(<< M("items", Arr(<< l, Obj(<< M("k", l) >>) >>)) >>)) >>)),
             M("title", l) >>),
      Obj(<< M("properties", Obj(<< M("properties", Obj(<< M("t", l) >>)) >>)) >>),
      Obj(<< M("definitions",
               Obj(<< M("d", Obj(<< M("properties", Obj(<< M("p", l) >>)) >>)) >>)) >>),
      Obj(<< M("properties", Arr(<< Obj(<< M("a", l) >>), l >>)),
             M("enum", Arr(<< Str(<<"x">>), l >>)) >>),
      Obj(<< M("properties",
               Obj(<< M("a", l), M("b", Obj(<< M("c", Arr(<< >>)), M("d", l) >>)) >>)),
             M("$public", Arr(<< Str(<<"a">>), Str(<<"b">>) >>)) >>) }

Trees == UNION {TreesOf(l) : l \in Leaves}

\* The scope {} of the forgiving pass, and a scope processTemplates left.
Scopes ==
    { NoScope,
      [locale |-> <<"en-us">>, property |-> <<"age">>, type |-> <<"number">>,
       role |-> Undef] }

InitExpand ==
    /\ force = FALSE
    /\ locales = << >>
    /\ templateDirs = << <<"A">> >>
    /\ schema0 = Schema4
    /\ schema = Schema4
    /\ disk = << >>
    /\ disk0 = << >>
    /\ tracker = << >>
    /\ cwd = StartDir
    /\ feedback = << >>
    /\ stack = << >>
    /\ pc = "done"
    /\ scope = NoScope
    /\ li = 0
    /\ pi = 0
    /\ todo = << >>
    /\ run = 2
    /\ writes = << >>
    /\ skipped = {}
    /\ attempts = << >>
    /\ \E t \in Trees, sc \in Scopes, missingIsError \in BOOLEAN :
          call = [pc |-> "call", tree |-> t, scope |-> sc,
                  missingIsError |-> missingIsError,
                  first |-> NoOutcome, second |-> NoOutcome]

\* expandSchema(schema, scope, '', false, missingIsError, feedback)
ExpandCall ==
    /\ call.pc = "call"
    /\ call' = [call EXCEPT
                  !.pc = "return",
                  !.first = expandSchema(call.tree, call.scope, << >>, FALSE,
                                         call.missingIsError)]
    /\ UNCHANGED << inputs, schema, disk, disk0, tracker, cwd, feedback, stack, pc, scope,
                    li, pi, todo, run, writes, skipped, attempts >>

\* expandSchema of the schema the first call returned, with the same arguments.
ExpandAgain ==
    /\ call.pc = "return" /\ ~call.first.threw
    /\ call' = [call EXCEPT
                  !.pc = "again",
                  !.second = expandSchema(call.first.node, call.scope, << >>, FALSE,
                                          call.missingIsError)]
    /\ UNCHANGED << inputs, schema, disk, disk0, tracker, cwd, feedback, stack, pc, scope,
                    li, pi, todo, run, writes, skipped, attempts >>

NextExpand ==
    \/ ExpandCall
    \/ ExpandAgain

SpecExpand == InitExpand /\ [][NextExpand]_vars

----------------------------------------------------------------------------
(* Properties                                                              *)

Frames == Range(stack)

\* The identity of an output path: its extension and its name.
Identity(path) == << ExtOf(path), BasenameExt(path, <<".", "dialog">>) >>

\* The tracker holds a FileRef of the identity of the path.
Claimed(trk, path) ==
    /\ ExtOf(path) \in DOMAIN trk
    /\ \E r \in Range(trk[ExtOf(path)]) : r.name = Identity(path)[2]

\* The call of the frame found a FileRef of its name and looked for no template.
ShortCircuited(f) == existingRef(f.name, f.entry.tracker).defined

\* C1: within a run, the tracker holds no two FileRefs of one name for an
\* extension, no identity (extension, name) is written twice by the
\* materializations, and no call whose output has a name the tracker holds
\* reaches the write.
C1_UniqueIdentity ==
    /\ \A ext \in DOMAIN tracker :
         \A i, j \in 1..Len(tracker[ext]) :
            i # j => tracker[ext][i].name # tracker[ext][j].name
    /\ \A i, j \in 1..Len(writes) :
         i # j => Identity(writes[i]) # Identity(writes[j])
    /\ \A f \in Frames : f.pc = "write" => ~Claimed(tracker, f.outPath)

\* A call computed an output whose name an earlier write had claimed, and was refused.
C1_Witness ==
    \E f \in Frames :
        /\ f.filename # << >> /\ f.ref = NoRef /\ f.pc \in {"entities", "finally"}
        /\ Claimed(tracker, f.outPath)
        /\ \E i \in 1..Len(writes) : Identity(writes[i]) = Identity(f.outPath)

\* The directory has the name as a literal file or as <name>.lg.
Contains(dir, name) ==
    \/ templateExists(Join(dir, name))
    \/ templateExists(Join(dir, name \o <<".", "lg">>))

\* The template of the directory of highest index that has the name.
HighestMatch(name, dirs) ==
    LET hi == Max({0} \cup {i \in 1..Len(dirs) : Contains(dirs[i], name)})
    IN  IF hi = 0 THEN Undefined
        ELSE IF templateExists(Join(dirs[hi], name))
        THEN readFile(Join(dirs[hi], name))
        ELSE parseFile(Join(dirs[hi], name \o <<".", "lg">>))

\* C2: the template a call found is the one of the directory of highest index
\* that has its name, and it is undefined exactly when no directory has the name.
C2_LastMatchWins ==
    \A f \in Frames :
        (f.pc # "lookup" /\ ~ShortCircuited(f)) =>
            /\ f.template = HighestMatch(f.name, templateDirs)
            /\ (f.template.tag = "undefined")
                 <=> (\A i \in 1..Len(templateDirs) : ~Contains(templateDirs[i], f.name))

\* With the directories [A, B], both of which have the name, B's file was found.
C2_Witness ==
    \E f \in Frames :
        /\ f.pc # "lookup" /\ ~ShortCircuited(f)
        /\ templateDirs = << <<"A">>, <<"B">> >>
        /\ Contains(<<"A">>, f.name) /\ Contains(<<"B">>, f.name)
        /\ f.template = findTemplateIn(f.name, <<"B">>, Undefined)

\* C3: every chain of nested processTemplate calls is finite and generate
\* returns.  A run is determined by its inputs, so a call nested in a call of
\* the same name that started in the same state (tracker, files, schema,
\* working directory) nests such a call again, without end: the chain is finite
\* only if no call is nested in a call of its name and entry state.
C3_ChainIsFinite ==
    \A i, j \in 1..Len(stack) :
        i < j => ~(stack[i].name = stack[j].name /\ stack[i].entry = stack[j].entry)

\* C4: a call of processTemplate returns with the working directory it was
\* entered with, on every path, and between the calls of processTemplates the
\* working directory is the one generate was called in.
C4_WorkingDirRestored ==
    /\ [](stack = << >> => cwd = StartDir)
    /\ [][(stack # << >> /\ Len(stack') < Len(stack)) => cwd' = Top.entry.cwd]_vars

\* A call changed the working directory for the evaluation of a 'template'
\* section, the evaluation threw, and the call has returned.
C4_Witness ==
    /\ stack = << >> /\ cwd = StartDir
    /\ \E i \in 2..Len(feedback) :
          /\ feedback[i] = Fb("error", "exception", EvaluateError)
          /\ feedback[i - 1].msg = "Generating" /\ feedback[i - 1].type = "info"

\* The next step of the call of frame f throws: the evaluation of a section,
\* the read of a list of the tracker or of a property the scope has not, or
\* fs-extra.
Throws(f) ==
    LET t == f.template
        fn == outputFilename(f.name, t, scope)
    IN  \/ /\ f.pc = "filename"
           /\ \/ t.tag = "object" /\ t.filename.has /\ t.filename.throws
              \/ ~fn.threw /\ ExtOf(Join(OutDir, fn.filename)) \notin DOMAIN tracker
        \/ /\ f.pc = "write"
           /\ force \/ ~pathExists(disk, f.outPath)
           /\ \/ t.tag = "object" /\ t.template.throws
              \/ ensureDirThrows(disk, Dirname(f.outPath))
              \/ IsDir(disk, f.outPath)
        \/ /\ f.pc = "entities"
           /\ t.entities.has
           /\ \/ \A i \in 1..Len(schema.props) : schema.props[i].path # scope.property
              \/ \E i \in 1..Len(schema.props) :
                    /\ schema.props[i].path = scope.property
                    /\ ~schema.props[i].entities.has
                    /\ t.entities.throws
        \/ /\ f.pc = "templates"
           /\ t.templates.has /\ t.templates.throws

\* The next step of the call of frame f finds no template for a name that is
\* not ignorable.
Misses(f) ==
    /\ f.pc = "lookup" /\ ~f.ignorable
    /\ ~existingRef(f.name, tracker).defined
    /\ \A i \in 1..Len(templateDirs) : ~Contains(templateDirs[i], f.name)

\* The run has asked for the template of that name, for that locale and property.
Attempted(locale, path, name, site) ==
    \E k \in 1..Len(attempts) :
        attempts[k] = [locale |-> locale, property |-> path, name |-> name, site |-> site]

\* Every template of every property and of the schema was asked for, with
\* every locale.
AllAttempted ==
    \A l \in 1..Len(locales) :
        /\ \A i \in 1..Len(schema0.props) :
              LET p == schema0.props[i]
                  names == IF p.templates.has THEN p.templates.val ELSE << p.type >>
              IN  /\ \A n \in 1..Len(names) :
                        Attempted(locales[l], p.path, names[n], "property")
                  /\ (p.entities.has /\ ~p.templates.has) =>
                        \A e \in 1..Len(p.entities.val) :
                           \E k \in 1..Len(attempts) :
                              /\ attempts[k].locale = locales[l]
                              /\ attempts[k].property = p.path
                              /\ attempts[k].site = "entity"
                              /\ attempts[k].name =
                                    (IF entityNameOf(p.entities.val[e]) = p.path \o <<"Entity">>
                                     THEN p.type ELSE entityNameOf(p.entities.val[e]))
                                    \o <<"Entity", "-">> \o p.type
        /\ schema0.top.has =>
              \A n \in 1..Len(schema0.top.val) :
                 \E k \in 1..Len(attempts) :
                    /\ attempts[k].locale = locales[l]
                    /\ attempts[k].site = "top"
                    /\ attempts[k].name = schema0.top.val[n]

\* C5: a failure of a call of processTemplate (no template for a name that is
\* not ignorable, an exception) is reported as an error and ends that call
\* alone: no step of a call changes the position of processTemplates, and a
\* run whose loop over the locales has started ends with every template of
\* every property and of the schema asked for with every locale, and with the
\* write of the final schema attempted.
C5_NoFailureAborts ==
    /\ [][(stack # << >> /\ (Throws(Top) \/ Misses(Top))) =>
             /\ Len(feedback') > Len(feedback)
             /\ feedback'[Len(feedback')].type = "error"
             /\ Len(stack') = Len(stack)
             /\ stack'[Len(stack)].pc = "finally"]_vars
    /\ [][stack # << >> => UNCHANGED << pc, li, pi, todo, attempts >>]_vars
    /\ []((pc = "done" /\ li > 0) =>
             /\ li = Len(locales) + 1
             /\ AllAttempted
             /\ \E k \in 1..Len(feedback) :
                   feedback[k].arg = SchemaFile /\ feedback[k].type \in {"info", "warning"})

\* A run has ended in which an exception was reported and a later template
\* was generated.
C5_Witness ==
    /\ pc = "done" /\ li > 0
    /\ \E i, j \in 1..Len(feedback) :
          /\ i < j
          /\ feedback[i].type = "error" /\ feedback[i].msg = "exception"
          /\ feedback[j] \in {Generating(w) : w \in Range(writes)}
    /\ \E i \in 1..Len(feedback) : feedback[i].msg = "Missing template"

\* C6: with force unset no file that exists when the run starts is written,
\* by processTemplate or by the write of the final schema, and each step that
\* would produce such a file reports the warning and leaves the files alone.
C6_ExistingFilesUntouched ==
    /\ [](~force =>
            \A p \in DOMAIN disk0 :
               /\ p \in DOMAIN disk /\ disk[p] = disk0[p]
               /\ p \notin Range(writes))
    /\ [][(~force /\ stack # << >> /\ Top.pc = "write" /\ Top.outPath \in DOMAIN disk0) =>
             /\ feedback' = Append(feedback, Skipping(Top.outPath))
             /\ disk' = disk]_vars
    /\ [][(~force /\ pc = "finish" /\ SchemaFile \in DOMAIN disk0) =>
             /\ Len(feedback') > Len(feedback)
             /\ feedback'[Len(feedback')] = Skipping(SchemaFile)
             /\ disk' = disk]_vars

\* A run without force has ended that skipped a template's file and the final
\* schema, both of which existed when it started.
C6_Witness ==
    /\ ~force /\ pc = "done" /\ run = 1
    /\ skipped \cap DOMAIN disk0 # {}
    /\ SchemaFile \in DOMAIN disk0
    /\ \E k \in 1..Len(feedback) : feedback[k] = Skipping(SchemaFile)

\* C7: a second run with force unset, with the inputs of the first one and on
\* the files the first one left, writes no file: the files after it are the
\* files before it.
C7_SecondRunWritesNothing ==
    run = 2 => (writes = << >> /\ disk = disk0)

\* C8: a path that a call skipped, because it exists and force is unset, has
\* its identity in the tracker, so that it is skipped once only.
C8_SkipRegistersIdentity ==
    /\ \A p \in skipped : Claimed(tracker, p)
    /\ \A i, j \in 1..Len(feedback) :
          (i # j /\ feedback[i].type = "warning" /\ feedback[j].type = "warning")
             => Identity(feedback[i].arg) # Identity(feedback[j].arg)

\* No template directory has the name.
NowhereFound(name) == \A i \in 1..Len(templateDirs) : ~Contains(templateDirs[i], name)

\* C9: the lookup of the template of an entity that no directory has reports
\* nothing, and the lookup of a template named by $templates, or of the
\* template of the type, that no directory has reports one 'Missing template'.
C9_EntityTemplateOptional ==
    /\ [][(stack # << >> /\ Top.pc = "lookup" /\ Top.site = "entity"
             /\ NowhereFound(Top.name))
          => feedback' = feedback]_vars
    /\ [][(stack # << >> /\ Top.pc = "lookup" /\ Top.site \in {"property", "top"}
             /\ NowhereFound(Top.name) /\ ~existingRef(Top.name, tracker).defined)
          => feedback' = Append(feedback, MissingTemplate(Top.name))]_vars

\* The number of reports of e.
Count(fb, e) == Cardinality({k \in 1..Len(fb) : fb[k] = e})

\* The property has neither $templates nor $entities in the schema, and no
\* template has attached $entities to it.
HasNeither(i) ==
    /\ ~schema0.props[i].templates.has
    /\ ~schema0.props[i].entities.has
    /\ ~schema.props[i].entities.has

\* C10, as claimed: a run over any number of locales (one at least) reports
\* one error for each property that has neither $templates nor $entities.
C10_OneErrorPerRun ==
    (pc = "done" /\ li > 0 /\ Len(locales) >= 1) =>
        \A i \in 1..Len(schema0.props) :
            HasNeither(i) => Count(feedback, NoEntities(schema0.props[i].path)) = 1

\* C10, amended: the error is reported once for each locale.  For each locale,
\* when the templates of a property are done, the error is reported if and
\* only if the property has no $entities then; the report changes nothing but
\* the feedback and goes on with the next property; and a run reports it, for
\* a property that has neither $templates nor $entities, once for each locale.
C10_OneErrorPerLocale ==
    /\ [][pc = "entcheck" =>
            IF ~schema.props[pi].entities.has
            THEN /\ feedback' = Append(feedback, NoEntities(schema.props[pi].path))
                 /\ pi' = pi + 1 /\ pc' = "property"
                 /\ UNCHANGED << schema, disk, tracker, cwd, stack, scope, li, writes,
                                 skipped, attempts >>
            ELSE feedback' = feedback]_vars
    /\ []((pc = "done" /\ li > 0) =>
            \A i \in 1..Len(schema0.props) :
                HasNeither(i) =>
                    Count(feedback, NoEntities(schema0.props[i].path)) = Len(locales))

\* A run over two locales has ended with two reports for one property.
C10_Witness ==
    /\ pc = "done" /\ li > 0 /\ Len(locales) = 2
    /\ \E i \in 1..Len(schema0.props) :
          HasNeither(i) /\ Count(feedback, NoEntities(schema0.props[i].path)) = 2

\* The call of the frame computed an output whose identity the tracker held:
\* addEntry returned undefined.
Refused(f) ==
    /\ f.pc \notin {"lookup", "filename"}
    /\ f.outPath # << >>
    /\ ~ShortCircuited(f)
    /\ f.ref = NoRef
    /\ Claimed(tracker, f.outPath)

\* The FileRef the tracker holds for the identity of the path.
Holder(path) ==
    CHOOSE r \in Range(tracker[ExtOf(path)]) : r.name = Identity(path)[2]

\* C12: when a materialization computes an output whose name and extension
\* were claimed by an earlier one of the run (under any directory), one file
\* of that identity has been written, and the path the second call returns is
\* the path of the file the first one wrote.
C12_SecondReusesFirstPath ==
    \A f \in Frames :
        Refused(f) =>
            /\ Cardinality({k \in 1..Len(writes) :
                               Identity(writes[k]) = Identity(f.outPath)}) = 1
            /\ f.outPath = Join(OutDir, Holder(f.outPath).relative)
            /\ f.outPath \in Range(writes)

\* The directory has a file named exactly name.
HasFile(dir, name) == templateExists(Join(dir, name))

\* The text of the file named name in the directory of highest index that has one.
OverrideText(name, dirs) ==
    LET hi == Max({i \in 1..Len(dirs) : HasFile(dirs[i], name)})
    IN  templateFile(Join(dirs[hi], name)).text

\* C13: when a call writes its output and a template directory has a file
\* named exactly like the computed output filename, the content written is the
\* content of that file (of the directory of highest precedence that has it),
\* whatever that content is, the empty one included.
C13_OverrideReplacesBody ==
    [][(/\ stack # << >> /\ Top.pc = "write"
        /\ writes' # writes
        /\ \E i \in 1..Len(templateDirs) : HasFile(templateDirs[i], Top.filename))
       => disk'[Top.outPath] = OverrideText(Top.filename, templateDirs)]_vars

\* The tracker holds a FileRef whose fullName is the name.
Tracked(name, trk) ==
    /\ ExtOf(name) \in DOMAIN trk
    /\ \E r \in Range(trk[ExtOf(name)]) : r.fullName = name

\* What a call can change, but for its own frame.
Effects == << tracker, disk, schema, cwd, feedback, writes, skipped, attempts >>

\* C16: a call whose name is the fullName of a FileRef of the tracker returns
\* outDir joined with the relative path of that FileRef and does nothing else:
\* its first step sets the path to return and goes to the return, with no
\* template, no section evaluated, no call nested, and nothing written,
\* reported or tracked; and its return changes nothing either.
C16_ShortCircuit ==
    /\ [][(stack # << >> /\ Top.pc = "lookup" /\ Tracked(Top.name, tracker)) =>
            /\ Len(stack') = Len(stack)
            /\ \A k \in 1..(Len(stack) - 1) : stack'[k] = stack[k]
            /\ \E r \in Range(tracker[ExtOf(Top.name)]) :
                  /\ r.fullName = Top.name
                  /\ stack'[Len(stack)] =
                        [Top EXCEPT !.outPath = Join(OutDir, r.relative), !.pc = "finally"]
            /\ UNCHANGED Effects]_vars
    /\ [][(stack # << >> /\ Top.pc = "finally" /\ Tracked(Top.name, Top.entry.tracker)) =>
            /\ stack' = Take(stack, Len(stack) - 1)
            /\ Top.template = Undefined /\ Top.todo = << >> /\ Top.ref = NoRef
            /\ tracker = Top.entry.tracker /\ disk = Top.entry.disk
            /\ schema = Top.entry.schema
            /\ UNCHANGED Effects]_vars

\* A call found the FileRef of its name, written before in the run, and is
\* about to return its path.
C16_Witness ==
    /\ stack # << >> /\ Top.pc = "finally"
    /\ Tracked(Top.name, Top.entry.tracker)
    /\ Top.outPath \in Range(writes)
    /\ Top.template = Undefined

\* C17: a call whose claim was refused stops there: it evaluates neither the
\* 'entities' nor the 'templates' section of its template, nests no call, and
\* has nothing left to do but return.  Stated for the calls made for a
\* property of the schema.
C17_RefusedClaimStops ==
    \A f \in Frames :
        (Refused(f) /\ propertyIndex(schema.props, scope.property) # 0) =>
            /\ f.pc \in {"entities", "templates", "finally"}
            /\ f.todo = << >>
            /\ f.pc = "entities" =>
                  \/ ~hasSection(f.template, "entities")
                  \/ /\ propertyIndex(schema.props, scope.property) # 0
                     /\ schema.props[propertyIndex(schema.props, scope.property)].entities.has
            /\ f.pc = "templates" => ~hasSection(f.template, "templates")

\* C20: a call that is about to claim its output finds a list in the tracker
\* for the extension of the output path, also when that extension is not the
\* one of the name of the template.
C20_BucketInitialized ==
    (stack # << >> /\ Top.pc = "filename"
       /\ ~outputFilename(Top.name, Top.template, scope).threw) =>
        ExtOf(Join(OutDir, outputFilename(Top.name, Top.template, scope).filename))
            \in DOMAIN tracker

RECURSIVE Flatten(_)
Flatten(seqs) == IF seqs = << >> THEN << >> ELSE Head(seqs) \o Flatten(Tail(seqs))

IsPrefix(s, t) == Len(s) <= Len(t) /\ s = SubSeq(t, 1, Len(s))

\* The part of an entity before its first ':'.
BeforeColon(entity) ==
    IF ":" \in Range(entity)
    THEN LET colon == CHOOSE k \in 1..Len(entity) :
                          entity[k] = ":" /\ \A j \in 1..(k - 1) : entity[j] # ":"
         IN  SubSeq(entity, 1, colon - 1)
    ELSE entity

\* <entityName>Entity-<type>, the type for an entity named <property>Entity.
ExpectedEntityName(p, entity) ==
    (IF BeforeColon(entity) = p.path \o <<"Entity">> THEN p.type ELSE BeforeColon(entity))
        \o <<"Entity", "-">> \o p.type

\* The attempts for a property: its $templates in order, or its type; then,
\* for a property that has $entities and no $templates, one for each entity.
ExpectedOfProperty(locale, p) ==
    LET names == IF p.templates.has THEN p.templates.val ELSE << p.type >>
        ents == IF p.entities.has /\ ~p.templates.has THEN p.entities.val ELSE << >>
    IN  [k \in 1..Len(names) |->
            [locale |-> locale, property |-> p.path, name |-> names[k], site |-> "property"]]
        \o
        [k \in 1..Len(ents) |->
            [locale |-> locale, property |-> p.path,
             name |-> ExpectedEntityName(p, ents[k]), site |-> "entity"]]

\* The attempts for a locale: the properties in order, then the top $templates.
ExpectedOfLocale(locale, sch) ==
    LET last == IF sch.props = << >> THEN Undef ELSE sch.props[Len(sch.props)].path
        tops == IF sch.top.has THEN sch.top.val ELSE << >>
    IN  Flatten([i \in 1..Len(sch.props) |-> ExpectedOfProperty(locale, sch.props[i])])
        \o
        [k \in 1..Len(tops) |->
            [locale |-> locale, property |-> last, name |-> tops[k], site |-> "top"]]

ExpectedAttempts(locs, sch) ==
    Flatten([l \in 1..Len(locs) |-> ExpectedOfLocale(locs[l], sch)])

\* The names attempted for a property and a locale, in order.
RECURSIVE NamesFor(_, _, _)
NamesFor(as, locale, path) ==
    IF as = << >> THEN << >>
    ELSE (IF Head(as).locale = locale /\ Head(as).property = path /\ Head(as).site # "top"
          THEN << Head(as).name >> ELSE << >>)
         \o NamesFor(Tail(as), locale, path)

\* C18: the calls of processTemplate by processTemplates are made locale by
\* locale, property by property in the order of the schema: the $templates of
\* the property in order (or its type), then, for a property with $entities
\* and no $templates, <entityName>Entity-<type> for each entity in order, and
\* after the properties the top $templates in order; a run that ends has made
\* them all.
C18_AttemptOrder ==
    /\ IsPrefix(attempts, ExpectedAttempts(locales, schema))
    /\ (pc = "done" /\ li > 0) => attempts = ExpectedAttempts(locales, schema)

\* A run has ended in which property age of type string with the entities
\* [ageEntity] was attempted as string, then stringEntity-string.
C18_Witness ==
    /\ pc = "done" /\ li > 0 /\ Len(locales) = 2
    /\ \E i \in 1..Len(schema0.props) :
          /\ schema0.props[i].path = <<"age">> /\ schema0.props[i].type = <<"string">>
          /\ schema0.props[i].entities = List(<< <<"age", "Entity">> >>)
          /\ ~schema0.props[i].templates.has
          /\ \A l \in 1..Len(locales) :
                NamesFor(attempts, locales[l], <<"age">>) =
                    << <<"string">>, <<"string", "Entity", "-", "string">> >>
    /\ \E k \in 1..Len(attempts) : attempts[k].site = "top"

\* The keys of the objects of a serialized JSON value.
KeysOf(text) ==
    {text[j + 1] : j \in {i \in 1..(Len(text) - 3) :
                            text[i] = "\"" /\ text[i + 2] = "\"" /\ text[i + 3] = ":"}}

\* The keys of the objects of a JSON value, at any depth.
RECURSIVE AllKeys(_)
AllKeys(node) ==
    (IF node.t = "object" THEN Range(node.keys) ELSE {})
        \cup UNION {AllKeys(node.items[i]) : i \in 1..Len(node.items)}

\* The run has ended with the write of the final schema.
SchemaWritten ==
    /\ pc = "done" /\ feedback # << >>
    /\ feedback[Len(feedback)] = Generating(SchemaFile)

\* C14, as claimed: the final schema written holds none of the keys
\* $templates, $entities, $requires, $public, at any depth.
C14_NoMetadataKeys ==
    SchemaWritten =>
        KeysOf(disk[SchemaFile]) \cap {"$templates", "$entities", "$requires", "$public"} = {}

\* C14, amended: the final schema written holds neither $templates nor
\* $requires, at any depth, and every other key of the schema, $entities and
\* $public included.
C14_TemplatesAndRequiresStripped ==
    SchemaWritten =>
        KeysOf(disk[SchemaFile]) = AllKeys(schemaTree(schema)) \ {"$templates", "$requires"}

\* The final schema was written for a schema that has the four keys, $templates
\* and $entities below a property, and it holds $entities and $public.
C14_Witness ==
    /\ SchemaWritten
    /\ {"$templates", "$entities", "$requires", "$public"} \subseteq AllKeys(schemaTree(schema))
    /\ \E i \in 1..Len(schema.props) :
          schema.props[i].templates.has /\ schema.props[i].entities.has
    /\ {"$entities", "$public", "properties", "type"} \subseteq KeysOf(disk[SchemaFile])

\* The evaluation of the expression fails or gives nothing: the parse throws,
\* the evaluation returns an error, or the value is falsy.
Fails(ev, sc) ==
    LET r == tryEvaluate(ev.expr, [sc EXCEPT !.property = ev.property])
    IN  r.threw \/ r.error \/ ~TruthyValue(r.value)

\* The evaluations of a call that failed.
Failures(outcome, sc) ==
    {k \in 1..Len(outcome.evals) : Fails(outcome.evals[k], sc)}

\* C11: on the forgiving pass nothing is reported, and a schema whose
\* expressions all fail to parse, fail to evaluate or give a falsy value is
\* returned as it is; on the strict pass one error is reported for each such
\* expression.
C11_TwoPassExpansion ==
    (call.pc = "return" /\ ~call.first.threw) =>
        IF call.missingIsError
        THEN /\ Len(call.first.feedback) = Cardinality(Failures(call.first, call.scope))
             /\ \A k \in 1..Len(call.first.feedback) : call.first.feedback[k].type = "error"
        ELSE /\ call.first.feedback = << >>
             /\ Cardinality(Failures(call.first, call.scope)) = Len(call.first.evals)
                   => call.first.node = call.tree

\* No string of the tree begins with '${'.
RECURSIVE NoExpression(_)
NoExpression(node) ==
    /\ ~isExpression(node)
    /\ \A i \in 1..Len(node.items) : NoExpression(node.items[i])

\* C15: expandSchema of a tree of objects, arrays, numbers, booleans, null and
\* strings none of which begins with '${' throws nothing, reports nothing and
\* returns an equal tree, on the forgiving and on the strict pass; so a second
\* expansion of an expanded tree returns it.
C15_ExpandedTreeIsFixpoint ==
    /\ (call.pc = "return" /\ NoExpression(call.tree)) =>
          /\ ~call.first.threw
          /\ call.first.node = call.tree
          /\ call.first.feedback = << >>
    /\ (call.pc = "again" /\ NoExpression(call.first.node)) =>
          /\ ~call.second.threw
          /\ call.second.node = call.first.node
          /\ call.second.feedback = << >>

\* The step from an array to one of its elements, in the path from the root
\* of a tree to a node (the step from an object to a member is its key).
Element == "#"

\* The keys of the path whose parent object was reached through the key
\* 'properties', joined with dots.
RECURSIVE PropertyOf(_, _)
PropertyOf(pos, i) ==
    IF i > Len(pos) THEN << >>
    ELSE LET rest == PropertyOf(pos, i + 1)
         IN  IF i >= 2 /\ pos[i - 1] = "properties" /\ pos[i] # Element
             THEN IF rest = << >> THEN << pos[i] >> ELSE << pos[i], "." >> \o rest
             ELSE rest

\* The expressions of a tree in the order of the document, each with the
\* property of the place it stands at.
RECURSIVE ExpectedEvals(_, _)
ExpectedEvals(node, pos) ==
    IF isExpression(node)
    THEN << [expr |-> exprOf(node.s), property |-> PropertyOf(pos, 1)] >>
    ELSE Flatten([i \in 1..Len(node.items) |->
                    ExpectedEvals(node.items[i],
                                  Append(pos, IF node.t = "object" THEN node.keys[i]
                                              ELSE Element))])

\* C19: every '${expr}' string of a schema is evaluated, in the order of the
\* document, with a scope whose property is the dot-joined keys, on the path
\* from the root, that are members of an object reached through a key named
\* 'properties' ('' when there is none): other keys do not extend it, and the
\* elements of an array have the property of the array.
C19_PropertyPath ==
    (call.pc # "call" /\ ~call.first.threw) =>
        call.first.evals = ExpectedEvals(call.tree, << >>)

\* A call has returned that evaluated ${property} below properties.a.properties.b
\* and below properties.a.type, and returned the paths a.b and a in their places.
C19_Witness ==
    /\ call.pc = "return" /\ ~call.first.threw
    /\ call.first.evals = << [expr |-> <<"property">>, property |-> <<"a", ".", "b">>],
                             [expr |-> <<"property">>, property |-> <<"a">>] >>
    /\ call.first.node =
          Obj(<< M("properties",
                   Obj(<< M("a", Obj(<< M("properties",
                                          Obj(<< M("b", Str(<<"a", ".", "b">>)) >>)),
                                        M("type", Str(<<"a">>)) >>)) >>)) >>)

====
